---- MODULE Spec2Model ----
(***************************************************************************)
(* Master side of the Wazuh cluster synchronization protocol               *)
(* (framework/wazuh/core/cluster/master.py).                               *)
(*                                                                         *)
(* One MasterHandler object per worker connection, the ReceiveTask objects *)
(* it owns with the coroutines they run (sync_integrity, sync_extra_valid, *)
(* sync_wazuh_db_info), and the Master server with its snapshot loop       *)
(* (file_status_update).  Everything runs on one asyncio event loop: a     *)
(* command handler is one atomic step, a coroutine is one atomic step      *)
(* between two awaits, and a done_callback is a step of its own, run by    *)
(* the loop after the task finished.                                       *)
(***************************************************************************)
EXTENDS Integers, FiniteSets, Sequences, TLC

(* ------------------------------ bounds --------------------------------- *)
\* MasterHandler objects that may exist at the same time
NHandlers == 1
\* ReceiveTask objects that may be alive at the same time (task ids are uuids)
MaxTasks == 2
\* distinct results of get_files_status besides the initial empty snapshot
MaxSnapshot == 1
\* the count of granted integrity probes of one cycle stops here
MaxGranted == 2
\* calls of MasterHandler.execute in one run
MaxExecute == 1
\* calls of MasterHandler.execute that may be pending at once
MaxPending == 2
\* chunks of one agent-info payload
MaxChunks == 3
\* modification times, in half seconds
MaxMtime == 3
\* times one archive is applied
MaxApply == 2
\* members of one merged file
MaxMembers == 3

Handlers == 1..NHandlers
TaskIds == 1..MaxTasks
\* node names a worker may announce in its hello
Names == {"w1"}
\* self.name of a handler that has not completed a hello
NoName == "None"
NoTask == [kind |-> "none", wazuh_common |-> 0, pc |-> "", filename |-> "",
           received |-> FALSE, cancel |-> FALSE, exc |-> "", sent |-> "",
           archive |-> FALSE, staging |-> FALSE]

\* what process_request returned: the handler it ran on, the command, the payload
Answer(h, cmd, msg) == [to |-> h, cmd |-> cmd, msg |-> msg]
NoAnswer == Answer(0, "", "")

(* the snapshot get_files_status computes *)
Snapshots == 0..MaxSnapshot
\* the paths a snapshot describes
Files == {"f1", "f2"}
\* the result of one computation: every path as that computation saw it
FullSnapshot(snap) == [f \in Files |-> snap]

(* the distributed API correlator *)
CallIds == 1..MaxExecute
\* the request ids a dapi_res may carry: the uuid4 of each execute call (the
\* call's own number) and 0, an id no call was given
RequestIds == 0..MaxExecute
\* the same with several calls pending at once
PendingIds == 1..MaxPending
\* an id that is not a key of pending_api_requests
NoEntry == [present |-> FALSE, Event |-> FALSE, Response |-> ""]
\* the names a local API client may have, taken from the ids a dapi_res carries
LocalNames == {0, 1}
\* the ids of the strings a worker sends, and what they hold
StringIds == {"s1"}
ResponsePayloads == {"a", "b"}
NoString == "none"
NoStrings == [s \in StringIds |-> NoString]
\* a worker name no worker of the run announces
Stranger == "w9"
NoCall == [pc |-> "none", self |-> 0, command |-> "", client |-> "",
           wait_for_complete |-> FALSE, sent_to |-> 0, result |-> ""]

(* sync_wazuh_db_info, update_file, get_health taken alone *)
\* what wazuh-db does with one chunk: answers ok, answers an error, or the
\* send raises
ChunkOutcomes == {"ok", "err", "exc"}
ChunkSeqs == UNION {[1..n -> ChunkOutcomes] : n \in 0..MaxChunks}
NoWdb == [pc |-> "none", payload |-> "", chunks |-> <<>>, commands |-> <<>>,
          updated_chunks |-> 0, error_messages |-> <<>>, sent |-> <<>>,
          exc |-> "", n_synced_chunks |-> 0, stamped |-> FALSE]
Mtimes == 0..MaxMtime
\* os.path.isfile(full_unmerged_name) is false
Absent == 0 - 1
NoMember == [pc |-> "none", mtime |-> 0, dest |-> Absent, agent_known |-> FALSE,
             total_extra_valid |-> 0, applied |-> 0, skippable |-> FALSE,
             rewritten |-> FALSE]
\* what update_file does with one member of a merged file: writes it, skips
\* it as older than its destination, skips it because its agent does not
\* exist, or fails on it
MemberOutcomes == {"written", "older", "no_agent", "failed"}
MemberSeqs == UNION {[1..n -> MemberOutcomes] : n \in 0..MaxMembers}
NoMerged == [pc |-> "none", members |-> <<>>, done |-> 0, batch |-> 0]
\* self.configuration['node_name']
MasterName == "master"
WorkerNames == {"w1", "w2"}
\* the names a filter may hold: workers, the master, a node that does not exist
FilterNames == WorkerNames \cup {MasterName, Stranger}
\* json.loads(data): null, an empty object, or a list of names
Filters == {[kind |-> "None", names |-> {}], [kind |-> "dict", names |-> {}]}
               \cup {[kind |-> "list", names |-> ns] : ns \in SUBSET FilterNames}
NoHealth == [pc |-> "none", connected |-> {}, filter_node |-> [kind |-> "None", names |-> {}],
             nodes |-> {}, n_connected_nodes |-> 0]

VARIABLES
    conn,                        \* per handler: "none", "open" or "lost"
    name,                        \* MasterHandler.name
    clients,                     \* Master.clients: names of the registered workers
    sync_integrity_free,         \* MasterHandler.sync_integrity_free
    sync_agent_info_free,        \* MasterHandler.sync_agent_info_free
    extra_valid_requested,       \* MasterHandler.extra_valid_requested
    sync_tasks,                  \* the live ReceiveTask objects, by task id
    integrity_already_executed,  \* Master.integrity_already_executed
    integrity_control,           \* Master.integrity_control (published snapshot)
    fsu_pc,                      \* position of file_status_update
    fsu_error,                   \* the iteration just run logged an exception
    response,                    \* the answer the step just taken sent to a worker, if any
    granted,                     \* per name: integrity probes answered True since the last clear
    completed,                   \* the task whose done_callback the step just taken ran, if any
    pending_api_requests,        \* Master.pending_api_requests
    in_str,                      \* per handler: the received strings, by string id
    local_clients,               \* Master.local_server.clients: names of the local API clients
    calls,                       \* the calls of MasterHandler.execute, by call
    sync_start_pending,          \* per handler: tmp_date_start_master is newer than date_start_master
    wdb,                         \* one run of the body of sync_wazuh_db_info
    unmerged,                    \* one merged member applied by update_file, and its destination
    merged,                      \* the loop of update_file over the members of one merged file
    health                       \* one call of Master.get_health

vars == <<conn, name, clients, sync_integrity_free, sync_agent_info_free,
          extra_valid_requested, sync_tasks, integrity_already_executed,
          integrity_control, fsu_pc, fsu_error, response, granted, completed,
          pending_api_requests, in_str, local_clients, calls,
          sync_start_pending, wdb, unmerged, merged, health>>

handlerVars == <<sync_integrity_free, sync_agent_info_free, extra_valid_requested,
                 sync_start_pending>>
serverVars == <<integrity_already_executed, integrity_control, fsu_pc, fsu_error, granted>>
connVars == <<conn, name, clients>>
dapiVars == <<pending_api_requests, in_str, local_clients, calls>>
pureVars == <<wdb, unmerged, merged, health>>

(* --------------------------- ReceiveTask ------------------------------- *)
\* the ids of the tasks in handler h's sync_tasks dictionary
TasksOf(h) == {t \in TaskIds : sync_tasks[t].kind # "none" /\ sync_tasks[t].wazuh_common = h}

\* uuid4(): an id no live task uses
FreshTaskId == CHOOSE t \in TaskIds : sync_tasks[t].kind = "none" /\
                   \A u \in TaskIds : sync_tasks[u].kind = "none" => t <= u

\* a task whose coroutine has returned, raised or been cancelled
Finished(t) == sync_tasks[t].pc \in {"done_ok", "done_error", "done_cancelled"}

\* first position of the coroutine set_up_coro() selects
FirstPc(kind) == IF kind = "agent_info" THEN "start" ELSE "wait"

NewTask(kind, h) ==
    [kind |-> kind, wazuh_common |-> h, pc |-> FirstPc(kind), filename |-> "",
     received |-> FALSE, cancel |-> FALSE, exc |-> "", sent |-> "", archive |-> FALSE,
     staging |-> FALSE]

(* ----------------------- MasterHandler.__init__ ------------------------ *)
ServerInit ==
    /\ conn = [h \in Handlers |-> "none"]
    /\ name = [h \in Handlers |-> NoName]
    /\ clients = {}
    /\ sync_integrity_free = [h \in Handlers |-> TRUE]
    /\ sync_agent_info_free = [h \in Handlers |-> TRUE]
    /\ extra_valid_requested = [h \in Handlers |-> FALSE]
    /\ sync_tasks = [t \in TaskIds |-> NoTask]
    /\ integrity_already_executed = {}
    /\ integrity_control = FullSnapshot(0)
    /\ fsu_pc = "compute"
    /\ fsu_error = FALSE
    /\ response = NoAnswer
    /\ granted = [n \in Names |-> 0]
    /\ completed = NoTask
    /\ pending_api_requests = [r \in PendingIds \cup {0} |-> NoEntry]
    /\ in_str = [h \in Handlers |-> NoStrings]
    /\ local_clients = {}
    /\ calls = [c \in PendingIds |-> NoCall]
    /\ sync_start_pending = [h \in Handlers |-> FALSE]

Init ==
    /\ ServerInit
    /\ wdb = NoWdb
    /\ unmerged = NoMember
    /\ merged = NoMerged
    /\ health = NoHealth

(* ------------------------ connection lifecycle ------------------------- *)
\* A worker connects: the server builds a MasterHandler (__init__).  A slot
\* whose handler lost its connection and owns no task any more is garbage
\* and may hold the next handler object.
ConnectionMade(h) ==
    /\ conn[h] = "none" \/ (conn[h] = "lost" /\ TasksOf(h) = {})
    /\ conn' = [conn EXCEPT ![h] = "open"]
    /\ name' = [name EXCEPT ![h] = NoName]
    /\ sync_integrity_free' = [sync_integrity_free EXCEPT ![h] = TRUE]
    /\ sync_agent_info_free' = [sync_agent_info_free EXCEPT ![h] = TRUE]
    /\ extra_valid_requested' = [extra_valid_requested EXCEPT ![h] = FALSE]
    /\ sync_start_pending' = [sync_start_pending EXCEPT ![h] = FALSE]
    /\ response' = NoAnswer /\ UNCHANGED <<clients, sync_tasks, serverVars>>
    /\ in_str' = [in_str EXCEPT ![h] = NoStrings]
    /\ completed' = NoTask /\ UNCHANGED <<pending_api_requests, local_clients, calls>>
    /\ UNCHANGED pureVars

\* AbstractServerHandler.hello: register the name unless it is taken
BaseHelloOk(n) == n \notin clients

\* the error MasterHandler.hello raises after the base hello, "" for none
HelloError(cluster_ok, version_ok) ==
    IF ~cluster_ok THEN "3030" ELSE IF ~version_ok THEN "3031" ELSE ""

Hello(h, n, cluster_ok, version_ok) ==
    /\ conn[h] = "open"
    /\ name[h] = NoName
    /\ IF BaseHelloOk(n)
       THEN /\ name' = [name EXCEPT ![h] = n]
            /\ clients' = clients \cup {n}
            /\ response' = Answer(h, "hello",
                                  IF HelloError(cluster_ok, version_ok) = ""
                                  THEN "ok" ELSE HelloError(cluster_ok, version_ok))
       ELSE /\ response' = Answer(h, "hello", "3028")
            /\ UNCHANGED <<name, clients>>
    /\ UNCHANGED <<conn, handlerVars, sync_tasks, serverVars>>
    /\ completed' = NoTask /\ UNCHANGED dapiVars
    /\ UNCHANGED pureVars

\* a connection_lost that cancels nothing
Cancelled_Ignored(task) == task

\* task.cancel(): a task that already finished is left alone
Cancelled(task) ==
    IF task.pc \in {"done_ok", "done_error", "done_cancelled"}
    THEN task ELSE [task EXCEPT !.cancel = TRUE]

\* a connection_lost that forgets the worker's integrity probe
ExecutedAfterConnectionLost_Forgets(executed, nm) == executed \ {nm}

\* connection_lost cancels the tasks and never touches integrity_already_executed
ExecutedAfterConnectionLost(executed, nm) == executed

\* MasterHandler.connection_lost
ConnectionLost(h) ==
    /\ conn[h] = "open"
    /\ conn' = [conn EXCEPT ![h] = "lost"]
    /\ clients' = clients \ {name[h]}
    /\ sync_tasks' = [t \in TaskIds |->
                        IF t \in TasksOf(h) THEN Cancelled(sync_tasks[t]) ELSE sync_tasks[t]]
    /\ integrity_already_executed' =
           ExecutedAfterConnectionLost(integrity_already_executed, name[h])
    /\ response' = NoAnswer
    /\ UNCHANGED <<name, handlerVars, integrity_control, fsu_pc, fsu_error, granted>>
    /\ completed' = NoTask /\ UNCHANGED dapiVars
    /\ UNCHANGED pureVars

\* The handshake comes first on a connection: the sync commands below are
\* those of a handler whose hello registered a name (the task loggers the
\* coroutines use exist only from then on).
Named(h) == conn[h] = "open" /\ name[h] # NoName

(* --------------------------- get_permission ---------------------------- *)
\* the first branch of get_permission is taken
FirstProbe(sync_type, nm, executed) == sync_type = "syn_i_w_m_p" /\ nm \notin executed

\* a get_permission that answers the agent-info probe from the integrity slot
Permission_WrongSlot(sync_type, nm, executed, i_free, a_free) ==
    IF sync_type = "syn_i_w_m_p" /\ nm \notin executed THEN i_free
    ELSE IF sync_type = "syn_a_w_m_p" THEN i_free
    ELSE FALSE

Permission(sync_type, nm, executed, i_free, a_free) ==
    IF FirstProbe(sync_type, nm, executed) THEN i_free
    ELSE IF sync_type = "syn_a_w_m_p" THEN a_free
    ELSE FALSE

\* a get_permission that does not record the worker
ExecutedAfterProbe_Forget(sync_type, nm, executed) == executed

ExecutedAfterProbe(sync_type, nm, executed) ==
    IF FirstProbe(sync_type, nm, executed) THEN executed \cup {nm} ELSE executed

Min(a, b) == IF a <= b THEN a ELSE b

\* str(permission)
BoolStr(b) == IF b THEN "True" ELSE "False"

GetPermission(h, sync_type) ==
    /\ Named(h)
    /\ sync_type \in {"syn_i_w_m_p", "syn_a_w_m_p"}
    /\ integrity_already_executed' =
           ExecutedAfterProbe(sync_type, name[h], integrity_already_executed)
    /\ LET permission == Permission(sync_type, name[h], integrity_already_executed,
                                    sync_integrity_free[h], sync_agent_info_free[h])
       IN  /\ response' = Answer(h, sync_type, BoolStr(permission))
           /\ granted' = IF sync_type = "syn_i_w_m_p" /\ permission
                         THEN [granted EXCEPT ![name[h]] = Min(@ + 1, MaxGranted)]
                         ELSE granted
    /\ UNCHANGED <<connVars, handlerVars, sync_tasks, integrity_control, fsu_pc, fsu_error>>
    /\ completed' = NoTask /\ UNCHANGED dapiVars
    /\ UNCHANGED pureVars

(* ------------------------ setup_sync_integrity ------------------------- *)
\* the ReceiveTask class setup_sync_integrity selects
SyncFunction(sync_type) ==
    CASE sync_type = "syn_i_w_m" -> "integrity"
      [] sync_type = "syn_e_w_m" -> "extra_valid"
      [] sync_type = "syn_a_w_m" -> "agent_info"

\* a setup_sync_integrity that does not reserve the integrity slot
IntegrityFreeAfterSetup_Unreserved(sync_type, free) == free

IntegrityFreeAfterSetup(sync_type, free) ==
    IF sync_type = "syn_i_w_m" THEN FALSE ELSE free

\* a setup_sync_integrity that reserves the agent-info slot for every round
AgentInfoFreeAfterSetup_Any(sync_type, free) == FALSE

AgentInfoFreeAfterSetup(sync_type, free) ==
    IF sync_type = "syn_a_w_m" THEN FALSE ELSE free

\* WazuhCommon.setup_receive_file: build the task, keep it in sync_tasks,
\* answer its id
SetupReceiveFile(kind, h, sync_type) ==
    /\ \E t \in TaskIds : sync_tasks[t].kind = "none"
    /\ sync_tasks' = [sync_tasks EXCEPT ![FreshTaskId] = NewTask(kind, h)]
    /\ response' = Answer(h, sync_type, ToString(FreshTaskId))

SetupSyncIntegrity(h, sync_type) ==
    /\ Named(h)
    /\ sync_type \in {"syn_i_w_m", "syn_e_w_m", "syn_a_w_m"}
    /\ sync_integrity_free' = [sync_integrity_free EXCEPT
                                 ![h] = IntegrityFreeAfterSetup(sync_type, @)]
    /\ sync_agent_info_free' = [sync_agent_info_free EXCEPT
                                  ![h] = AgentInfoFreeAfterSetup(sync_type, @)]
    /\ SetupReceiveFile(SyncFunction(sync_type), h, sync_type)
    /\ UNCHANGED <<connVars, extra_valid_requested, sync_start_pending, serverVars>>
    /\ completed' = NoTask /\ UNCHANGED dapiVars
    /\ UNCHANGED pureVars

(* ------------- end_receiving_integrity_checksums, syn_i_w_m_r ---------- *)
\* The coroutine reads the task's filename once, right after its wait, so
\* the model keeps the filename and the event only until that read: binding
\* a name to a task that is past its wait is a dead store.
Bind(t, filename) ==
    IF sync_tasks[t].pc = "wait"
    THEN [sync_tasks EXCEPT ![t].filename = filename, ![t].received = TRUE]
    ELSE sync_tasks

\* WazuhCommon.end_receiving_file: bind the file name to the task and set
\* its event; an id that is not in sync_tasks is an error
EndReceivingIntegrityChecksums(h, t) ==
    /\ Named(h)
    /\ IF t \in TasksOf(h)
       THEN /\ sync_tasks' = Bind(t, "file")
            /\ response' = Answer(h, "syn_i_w_m_e", "ok")
       ELSE /\ response' = Answer(h, "syn_i_w_m_e", "err")
            /\ UNCHANGED sync_tasks
    /\ UNCHANGED <<connVars, handlerVars, serverVars>>
    /\ completed' = NoTask /\ UNCHANGED dapiVars
    /\ UNCHANGED pureVars

\* WazuhCommon.error_receiving_file: the task named takes the error as its
\* file name and its event is set; the name 'None' (here 0) names no task
ErrorReceivingFile(h, t) ==
    IF t = 0
    THEN response' = Answer(h, "syn_i_w_m_r", "ok") /\ UNCHANGED sync_tasks
    ELSE IF t \in TasksOf(h)
    THEN /\ sync_tasks' = Bind(t, "error")
         /\ response' = Answer(h, "syn_i_w_m_r", "ok")
    ELSE response' = Answer(h, "syn_i_w_m_r", "err") /\ UNCHANGED sync_tasks

FreeAfterSyncError(free) == TRUE

ProcessSyncErrorFromWorker(h, t) ==
    /\ Named(h)
    /\ sync_integrity_free' = [sync_integrity_free EXCEPT ![h] = FreeAfterSyncError(@)]
    /\ ErrorReceivingFile(h, t)
    /\ UNCHANGED <<connVars, sync_agent_info_free, extra_valid_requested,
                   sync_start_pending, serverVars>>
    /\ completed' = NoTask /\ UNCHANGED dapiVars
    /\ UNCHANGED pureVars

(* ------------------------- coroutine plumbing -------------------------- *)
\* the coroutine of task t may take its next step: it is alive and no
\* cancellation is pending for it
Runs(t, kind, pc) ==
    /\ sync_tasks[t].kind = kind
    /\ sync_tasks[t].pc = pc
    /\ ~sync_tasks[t].cancel

Goto(t, pc) ==
    sync_tasks' = [sync_tasks EXCEPT ![t].pc = pc, ![t].filename = "", ![t].received = FALSE]

\* the coroutine of task t ends by raising exc
Raise(t, exc) ==
    sync_tasks' = [sync_tasks EXCEPT ![t].pc = "done_error", ![t].exc = exc,
                                     ![t].filename = "", ![t].received = FALSE]

\* the coroutine of task t awaits send_request(cmd) at position pc
Send(t, pc, cmd) ==
    sync_tasks' = [sync_tasks EXCEPT ![t].pc = pc, ![t].sent = cmd,
                                     ![t].filename = "", ![t].received = FALSE]

Owner(t) == sync_tasks[t].wazuh_common

\* a continuation that decompresses whatever the artifact is
WaitReturned_Decompress(t) == Goto(t, "decompress")

\* asyncio.wait_for(received_file.wait(), timeout_receiving_file) returned:
\* an artifact that is an error is raised, a file name is decompressed next
WaitReturned(t) ==
    IF sync_tasks[t].filename = "error" THEN Raise(t, "worker_error") ELSE Goto(t, "decompress")

\* the wait expired: asyncio.TimeoutError leaves the coroutine
WaitExpired(t) == Raise(t, "timeout")

\* decompress_files returned the directory it filled
StagingAfterDecompress(staging) == TRUE

\* a finally block that leaves the staging directory where it is
StagingAfterRmtree_Kept(staging) == staging

\* shutil.rmtree(decompressed_files_path)
StagingAfterRmtree(staging) == FALSE

(* ---------------------------- sync_integrity --------------------------- *)
\* the four buckets compare_files may return, each empty (FALSE) or not
Buckets == [missing : BOOLEAN, shared : BOOLEAN, extra : BOOLEAN, extra_valid : BOOLEAN]

\* functools.reduce(operator.add, map(len, worker_files_ko.values())) = 0
NoChanges(ko) == ~(ko.missing \/ ko.shared \/ ko.extra \/ ko.extra_valid)

\* bool(worker_files_ko['extra_valid'])
ExtraValidRequested(ko) == ko.extra_valid

IntegrityReceived(t) ==
    /\ Runs(t, "integrity", "wait")
    /\ sync_tasks[t].received
    /\ WaitReturned(t)
    /\ response' = NoAnswer /\ UNCHANGED <<connVars, handlerVars, serverVars>>
    /\ completed' = NoTask /\ UNCHANGED dapiVars
    /\ UNCHANGED pureVars

IntegrityTimeout(t) ==
    /\ Runs(t, "integrity", "wait")
    /\ ~sync_tasks[t].received
    /\ WaitExpired(t)
    /\ response' = NoAnswer /\ UNCHANGED <<connVars, handlerVars, serverVars>>
    /\ completed' = NoTask /\ UNCHANGED dapiVars
    /\ UNCHANGED pureVars

\* integrity_sync_status.update({'tmp_date_start_master': datetime.now(), ...})
StartPendingAfterDiff(pending) == TRUE

\* the finally block of the push: date_start_master takes tmp_date_start_master
\* unless extra-valid files were requested
StartPendingAfterFinally(evr, pending) == IF ~evr THEN FALSE ELSE pending

\* the coroutine of the task is inside the try block of the push
InPush(task) ==
    task.kind = "integrity" /\ task.pc \in {"send_c", "send_file", "send_c_e", "send_c_r"}

\* the finally block of the push ran for the handler of task t
PushFinally(t) ==
    sync_start_pending' = [sync_start_pending EXCEPT ![Owner(t)] =
                              StartPendingAfterFinally(extra_valid_requested[Owner(t)], @)]

\* compress_files built the archive to push
ArchiveAfterCompress(archive) == TRUE

\* a finally block that leaves the archive on the disk
ArchiveAfterFinally_Kept(archive) == archive

\* the finally block of the push: os.unlink(compressed_data)
ArchiveAfterFinally(archive) == FALSE

\* decompress_files returned (or raised): drop the staging directory, diff
\* the worker's metadata against integrity_control, record the outcome; with
\* no change syn_m_c_ok is sent, else the archive is built and syn_m_c sent
IntegrityCompare(t, decompressed, ko) ==
    /\ Runs(t, "integrity", "decompress")
    /\ IF ~decompressed
       THEN /\ Raise(t, "decompress")
            /\ UNCHANGED <<extra_valid_requested, sync_start_pending>>
       ELSE /\ extra_valid_requested' =
                  [extra_valid_requested EXCEPT ![Owner(t)] = ExtraValidRequested(ko)]
            /\ sync_start_pending' = [sync_start_pending EXCEPT ![Owner(t)] =
                  IF NoChanges(ko) THEN @ ELSE StartPendingAfterDiff(@)]
            /\ sync_tasks' = [sync_tasks EXCEPT
                  ![t].pc = IF NoChanges(ko) THEN "send_ok" ELSE "send_c",
                  ![t].sent = IF NoChanges(ko) THEN "syn_m_c_ok" ELSE "syn_m_c",
                  ![t].archive = IF NoChanges(ko) THEN @ ELSE ArchiveAfterCompress(@),
                  ![t].staging = StagingAfterRmtree(StagingAfterDecompress(@)),
                  ![t].filename = "", ![t].received = FALSE]
    /\ response' = NoAnswer /\ UNCHANGED <<connVars, sync_integrity_free, sync_agent_info_free, serverVars>>
    /\ completed' = NoTask /\ UNCHANGED dapiVars
    /\ UNCHANGED pureVars

\* send_request(syn_m_c_ok) returned
IntegritySendOk(t) ==
    /\ Runs(t, "integrity", "send_ok")
    /\ Goto(t, "done_ok")
    /\ response' = NoAnswer /\ UNCHANGED <<connVars, handlerVars, serverVars>>
    /\ completed' = NoTask /\ UNCHANGED dapiVars
    /\ UNCHANGED pureVars

\* a push that streams the archive whatever syn_m_c answered
AfterPushStart_Stream(ok) == "send_file"

\* where the push goes after the answer to syn_m_c: an exception or an
\* answer starting with Error is raised, a task id lets the stream start
AfterPushStart(ok) == IF ok THEN "send_file" ELSE "send_c_r"

\* send_request(syn_m_c) returned a push task id, or an error
IntegrityPushStart(t, ok) ==
    /\ Runs(t, "integrity", "send_c")
    /\ IF AfterPushStart(ok) = "send_file"
       THEN Goto(t, "send_file") ELSE Send(t, "send_c_r", "syn_m_c_r")
    /\ response' = NoAnswer /\ UNCHANGED <<connVars, handlerVars, serverVars>>
    /\ completed' = NoTask /\ UNCHANGED dapiVars
    /\ UNCHANGED pureVars

\* send_file(compressed_data) returned, or raised
IntegrityPushFile(t, ok) ==
    /\ Runs(t, "integrity", "send_file")
    /\ IF ok THEN Send(t, "send_c_e", "syn_m_c_e") ELSE Send(t, "send_c_r", "syn_m_c_r")
    /\ response' = NoAnswer /\ UNCHANGED <<connVars, handlerVars, serverVars>>
    /\ completed' = NoTask /\ UNCHANGED dapiVars
    /\ UNCHANGED pureVars

\* send_request(syn_m_c_e) returned: on success the finally block ends the
\* coroutine, on an error syn_m_c_r is sent first
IntegrityPushEnd(t, ok) ==
    /\ Runs(t, "integrity", "send_c_e")
    /\ IF ok
       THEN sync_tasks' = [sync_tasks EXCEPT ![t].pc = "done_ok",
                                            ![t].archive = ArchiveAfterFinally(@)]
       ELSE Send(t, "send_c_r", "syn_m_c_r")
    /\ IF ok THEN PushFinally(t) ELSE UNCHANGED sync_start_pending
    /\ response' = NoAnswer
    /\ UNCHANGED <<connVars, sync_integrity_free, sync_agent_info_free,
                   extra_valid_requested, serverVars>>
    /\ completed' = NoTask /\ UNCHANGED dapiVars
    /\ UNCHANGED pureVars

\* send_request(syn_m_c_r) returned; finally block; return result
IntegrityPushError(t) ==
    /\ Runs(t, "integrity", "send_c_r")
    /\ sync_tasks' = [sync_tasks EXCEPT ![t].pc = "done_ok",
                                        ![t].archive = ArchiveAfterFinally(@)]
    /\ PushFinally(t)
    /\ response' = NoAnswer
    /\ UNCHANGED <<connVars, sync_integrity_free, sync_agent_info_free,
                   extra_valid_requested, serverVars>>
    /\ completed' = NoTask /\ UNCHANGED dapiVars
    /\ UNCHANGED pureVars

(* --------------------- sync_extra_valid, sync_worker_files ------------- *)
ExtraValidReceived(t) ==
    /\ Runs(t, "extra_valid", "wait")
    /\ sync_tasks[t].received
    /\ WaitReturned(t)
    /\ response' = NoAnswer /\ UNCHANGED <<connVars, handlerVars, serverVars>>
    /\ completed' = NoTask /\ UNCHANGED dapiVars
    /\ UNCHANGED pureVars

ExtraValidTimeout(t) ==
    /\ Runs(t, "extra_valid", "wait")
    /\ ~sync_tasks[t].received
    /\ WaitExpired(t)
    /\ response' = NoAnswer /\ UNCHANGED <<connVars, handlerVars, serverVars>>
    /\ completed' = NoTask /\ UNCHANGED dapiVars
    /\ UNCHANGED pureVars

\* decompress_files returned (or raised)
ExtraValidDecompress(t, decompressed) ==
    /\ Runs(t, "extra_valid", "decompress")
    /\ IF decompressed
       THEN sync_tasks' = [sync_tasks EXCEPT ![t].pc = "apply",
                                            ![t].staging = StagingAfterDecompress(@)]
       ELSE Raise(t, "decompress")
    /\ response' = NoAnswer /\ UNCHANGED <<connVars, handlerVars, serverVars>>
    /\ completed' = NoTask /\ UNCHANGED dapiVars
    /\ UNCHANGED pureVars

\* sync_extra_valid after sync_worker_files returned: date_start_master takes
\* tmp_date_start_master
StartPendingAfterExtraValid(pending) == FALSE

\* process_files_from_worker returned (or raised); the staging directory is
\* removed; on success sync_extra_valid closes the round
ExtraValidApply(t, applied) ==
    /\ Runs(t, "extra_valid", "apply")
    /\ IF applied
       THEN /\ extra_valid_requested' = [extra_valid_requested EXCEPT ![Owner(t)] = FALSE]
            /\ sync_integrity_free' = [sync_integrity_free EXCEPT ![Owner(t)] = TRUE]
            /\ sync_start_pending' = [sync_start_pending EXCEPT ![Owner(t)] =
                  StartPendingAfterExtraValid(@)]
            /\ sync_tasks' = [sync_tasks EXCEPT ![t].pc = "done_ok",
                                                ![t].staging = StagingAfterRmtree(@)]
       ELSE /\ sync_tasks' = [sync_tasks EXCEPT ![t].pc = "done_error", ![t].exc = "apply",
                                                ![t].staging = StagingAfterRmtree(@)]
            /\ UNCHANGED <<extra_valid_requested, sync_integrity_free, sync_start_pending>>
    /\ response' = NoAnswer /\ UNCHANGED <<connVars, sync_agent_info_free, serverVars>>
    /\ completed' = NoTask /\ UNCHANGED dapiVars
    /\ UNCHANGED pureVars

(* --------------------------- sync_wazuh_db_info ------------------------ *)
\* what the coroutine finds under its task id in in_str
Payloads == {"json", "missing", "bad_json"}

\* a coroutine that mixes up the two typed errors
ExcOfPayload_Swapped(payload) ==
    CASE payload = "missing" -> "3036"
      [] payload = "bad_json" -> "3035"
      [] OTHER -> ""

\* KeyError becomes WazuhClusterError(3035), ValueError WazuhClusterError(3036)
ExcOfPayload(payload) ==
    CASE payload = "missing" -> "3035"
      [] payload = "bad_json" -> "3036"
      [] OTHER -> ""

\* the received string is read and parsed; a good payload is sent chunk by
\* chunk to wazuh-db, a bad one makes the coroutine send syn_m_a_err
AgentInfoStart(t, payload) ==
    /\ Runs(t, "agent_info", "start")
    /\ sync_tasks' = [sync_tasks EXCEPT
           ![t].pc = IF payload = "json" THEN "send_a_e" ELSE "send_a_err",
           ![t].sent = IF payload = "json" THEN "syn_m_a_e" ELSE "syn_m_a_err",
           ![t].exc = ExcOfPayload(payload)]
    /\ response' = NoAnswer /\ UNCHANGED <<connVars, handlerVars, serverVars>>
    /\ completed' = NoTask /\ UNCHANGED dapiVars
    /\ UNCHANGED pureVars

\* send_request(syn_m_a_err) returned: the typed error is raised
AgentInfoSendErr(t) ==
    /\ Runs(t, "agent_info", "send_a_err")
    /\ Raise(t, sync_tasks[t].exc)
    /\ response' = NoAnswer /\ UNCHANGED <<connVars, handlerVars, serverVars>>
    /\ completed' = NoTask /\ UNCHANGED dapiVars
    /\ UNCHANGED pureVars

\* send_request(syn_m_a_e) returned: status stamped, response returned;
\* or the send failed and its error leaves the coroutine
AgentInfoSendEnd(t, ok) ==
    /\ Runs(t, "agent_info", "send_a_e")
    /\ IF ok THEN Goto(t, "done_ok") ELSE Raise(t, "send")
    /\ response' = NoAnswer /\ UNCHANGED <<connVars, handlerVars, serverVars>>
    /\ completed' = NoTask /\ UNCHANGED dapiVars
    /\ UNCHANGED pureVars

(* ------------------------ cancellation, callbacks ---------------------- *)
\* CancelledError is thrown into the coroutine at the await it is suspended
\* on; it is no Exception, so only the finally blocks run (the archive only
\* exists inside the try block of the push)
TaskCancelled(t) ==
    /\ sync_tasks[t].kind # "none"
    /\ sync_tasks[t].cancel
    /\ ~Finished(t)
    /\ sync_tasks' = [sync_tasks EXCEPT ![t].pc = "done_cancelled",
                                        ![t].archive = ArchiveAfterFinally(@),
                                        ![t].staging = StagingAfterRmtree(@),
                                        ![t].filename = "", ![t].received = FALSE]
    /\ IF InPush(sync_tasks[t]) THEN PushFinally(t) ELSE UNCHANGED sync_start_pending
    /\ response' = NoAnswer
    /\ UNCHANGED <<connVars, sync_integrity_free, sync_agent_info_free,
                   extra_valid_requested, serverVars>>
    /\ completed' = NoTask /\ UNCHANGED dapiVars
    /\ UNCHANGED pureVars

\* a done_callback that frees the slot without looking at extra_valid_requested
IntegrityFreeAfterDone_Always(evr, free) == TRUE

\* ReceiveIntegrityTask.done_callback
IntegrityFreeAfterDone(evr, free) == IF ~evr THEN TRUE ELSE free

\* a done_callback of the extra-valid task that leaves the slot alone
IntegrityFreeAfterExtraValidDone_Kept(free) == free

\* ReceiveExtraValidTask.done_callback
IntegrityFreeAfterExtraValidDone(free) == TRUE

\* a done_callback of the agent-info task that leaves the slot alone
AgentInfoFreeAfterDone_Kept(free) == free

\* ReceiveAgentInfoTask.done_callback
AgentInfoFreeAfterDone(free) == TRUE

\* the done_callback of a finished task: the base class drops the task from
\* sync_tasks, the subclass releases its slot
DoneCallback(t) ==
    /\ sync_tasks[t].kind # "none"
    /\ Finished(t)
    /\ sync_tasks' = [sync_tasks EXCEPT ![t] = NoTask]
    /\ LET h == Owner(t)
           kind == sync_tasks[t].kind
       IN  /\ sync_integrity_free' = [sync_integrity_free EXCEPT ![h] =
                  CASE kind = "integrity" ->
                           IntegrityFreeAfterDone(extra_valid_requested[h], @)
                    [] kind = "extra_valid" -> IntegrityFreeAfterExtraValidDone(@)
                    [] OTHER -> @]
           /\ extra_valid_requested' = [extra_valid_requested EXCEPT ![h] =
                  IF kind = "extra_valid" THEN FALSE ELSE @]
           /\ sync_agent_info_free' = [sync_agent_info_free EXCEPT ![h] =
                  IF kind = "agent_info" THEN AgentInfoFreeAfterDone(@) ELSE @]
    /\ response' = NoAnswer /\ UNCHANGED <<connVars, sync_start_pending, serverVars>>
    /\ completed' = sync_tasks[t] /\ UNCHANGED dapiVars
    /\ UNCHANGED pureVars

(* --------------------------- file_status_update ------------------------ *)
\* a loop that stores the result of a computation file by file
ControlAfterIteration_Partial(computed, snap, control) ==
    IF computed THEN [control EXCEPT !["f1"] = snap] ELSE control

\* self.integrity_control = await asyncio.wait_for(task, timeout=None)
ControlAfterIteration(computed, snap, control) ==
    IF computed THEN FullSnapshot(snap) ELSE control

\* a loop that an exception of the computation ends
PcAfterIteration_Stops(computed) == IF computed THEN "sleep" ELSE "stopped"

\* the except clause logs, the loop goes on to its sleep
PcAfterIteration(computed) == "sleep"

\* a loop that never clears the set
ExecutedAfterIteration_Keep(computed, executed) == executed

\* integrity_already_executed after the try block of one iteration
ExecutedAfterIteration(computed, executed) == IF computed THEN {} ELSE executed

\* the executor's get_files_status returned snap (computed) or raised
FileStatusUpdate(computed, snap) ==
    /\ fsu_pc = "compute"
    /\ integrity_control' = ControlAfterIteration(computed, snap, integrity_control)
    /\ integrity_already_executed' =
           ExecutedAfterIteration(computed, integrity_already_executed)
    /\ granted' = IF integrity_already_executed' = {}
                  THEN [n \in Names |-> 0] ELSE granted
    /\ fsu_pc' = PcAfterIteration(computed)
    /\ fsu_error' = ~computed
    /\ response' = NoAnswer /\ UNCHANGED <<connVars, handlerVars, sync_tasks>>
    /\ completed' = NoTask /\ UNCHANGED dapiVars
    /\ UNCHANGED pureVars

\* asyncio.sleep(recalculate_integrity) returned: next iteration
FileStatusSleep ==
    /\ fsu_pc = "sleep"
    /\ fsu_pc' = "compute"
    /\ fsu_error' = FALSE
    /\ response' = NoAnswer
    /\ UNCHANGED <<connVars, handlerVars, sync_tasks, integrity_already_executed,
                   integrity_control, granted>>
    /\ completed' = NoTask /\ UNCHANGED dapiVars
    /\ UNCHANGED pureVars

(* ------------------------- execute, process_dapi_res ------------------- *)
syncVars == <<handlerVars, sync_tasks, serverVars>>

\* str(uuid4()): the id of the next execute call
FreshRequestId == CHOOSE c \in PendingIds : calls[c].pc = "none" /\
                      \A d \in PendingIds : calls[d].pc = "none" => c <= d

\* self.server.clients[client]: the handler registered under the name
ClientHandler(client) == CHOOSE h \in Handlers : conn[h] = "open" /\ name[h] = client

\* the commands the model passes to execute; get_nodes stands for the
\* commands that are run at once by process_request
ExecuteCommands == {"dapi", "dapi_fwd", "get_nodes"}

\* pending_api_requests after execute inserted its entry
PendingAfterInsert(pending, request_id) ==
    [pending EXCEPT ![request_id] = [present |-> TRUE, Event |-> FALSE, Response |-> ""]]

\* execute up to its first await, or to its end when it has none: the entry
\* is inserted, then the command decides
Execute(c, h, command, client, wait_for_complete, status_ok) ==
    /\ \E d \in PendingIds : calls[d].pc = "none"
    /\ c = FreshRequestId
    /\ Named(h)
    /\ pending_api_requests' = PendingAfterInsert(pending_api_requests, c)
    /\ LET call == [NoCall EXCEPT !.self = h, !.command = command, !.client = client,
                                  !.wait_for_complete = wait_for_complete]
       IN  calls' = [calls EXCEPT ![c] =
               CASE command = "dapi_fwd" /\ client \in clients ->
                        [call EXCEPT !.pc = "sending", !.sent_to = ClientHandler(client)]
                 [] command = "dapi_fwd" /\ client \notin clients ->
                        [call EXCEPT !.pc = "failed", !.result = "3022"]
                 [] command = "dapi" ->
                        [call EXCEPT !.pc = "sending", !.sent_to = h]
                 [] OTHER ->
                        IF status_ok THEN [call EXCEPT !.pc = "returned", !.result = "ok"]
                        ELSE [call EXCEPT !.pc = "failed", !.result = "3022"]]
    /\ response' = NoAnswer /\ completed' = NoTask
    /\ UNCHANGED <<connVars, syncVars, in_str, local_clients>>
    /\ UNCHANGED pureVars

\* send_request(dapi) returned; its result is not looked at
ExecuteSent(c) ==
    /\ calls[c].pc = "sending"
    /\ calls' = [calls EXCEPT ![c].pc = "waiting"]
    /\ response' = NoAnswer /\ completed' = NoTask
    /\ UNCHANGED <<connVars, syncVars, pending_api_requests, in_str, local_clients>>
    /\ UNCHANGED pureVars

\* wait_for(Event.wait(), timeout) returned: the response is read from the table
ExecuteReturn(c) ==
    /\ calls[c].pc = "waiting"
    /\ pending_api_requests[c].Event
    /\ calls' = [calls EXCEPT ![c].pc = "returned",
                              ![c].result = pending_api_requests[c].Response]
    /\ response' = NoAnswer /\ completed' = NoTask
    /\ UNCHANGED <<connVars, syncVars, pending_api_requests, in_str, local_clients>>
    /\ UNCHANGED pureVars

\* an execute that never bounds its wait
HasTimeout_Never(wait_for_complete) == FALSE

\* timeout = None if wait_for_complete else timeout_dapi_request
HasTimeout(wait_for_complete) == ~wait_for_complete

\* the wait expired: asyncio.TimeoutError becomes WazuhClusterError(3021)
ExecuteTimeout(c) ==
    /\ calls[c].pc = "waiting"
    /\ HasTimeout(calls[c].wait_for_complete)
    /\ ~pending_api_requests[c].Event
    /\ calls' = [calls EXCEPT ![c].pc = "failed", ![c].result = "3021"]
    /\ response' = NoAnswer /\ completed' = NoTask
    /\ UNCHANGED <<connVars, syncVars, pending_api_requests, in_str, local_clients>>
    /\ UNCHANGED pureVars

\* a worker's send_string completed: the string is in in_str under its id
ReceiveString(h, string_id, payload) ==
    /\ conn[h] = "open"
    /\ in_str' = [in_str EXCEPT ![h][string_id] = payload]
    /\ response' = NoAnswer /\ completed' = NoTask
    /\ UNCHANGED <<connVars, syncVars, pending_api_requests, local_clients, calls>>
    /\ UNCHANGED pureVars

\* a process_dapi_res that looks at the local API clients first
DapiResBranch_LocalFirst(req_id, pending, local) ==
    IF req_id \in local THEN "local"
    ELSE IF pending[req_id].present THEN "pending"
    ELSE "unknown"

\* the branch process_dapi_res takes
DapiResBranch(req_id, pending, local) ==
    IF pending[req_id].present THEN "pending"
    ELSE IF req_id \in local THEN "local"
    ELSE "unknown"

\* the table entry after the response was stored and the waiter signalled
EntryAfterResponse(entry, payload) == [entry EXCEPT !.Response = payload, !.Event = TRUE]

\* a process_dapi_res that signals every waiter
PendingAfterResponse_All(pending, req_id, payload) ==
    [r \in DOMAIN pending |->
        IF pending[r].present THEN EntryAfterResponse(pending[r], payload) ELSE pending[r]]

\* pending_api_requests[req_id]['Response'] = ..., ['Event'].set()
PendingAfterResponse(pending, req_id, payload) ==
    [pending EXCEPT ![req_id] = EntryAfterResponse(@, payload)]

\* process_dapi_res; a string id that is not a key of in_str is a KeyError
\* raised before anything was changed
ProcessDapiRes(h, req_id, string_id) ==
    /\ conn[h] = "open"
    /\ LET branch == DapiResBranch(req_id, pending_api_requests, local_clients)
           payload == in_str[h][string_id]
       IN  CASE branch = "pending" /\ payload # NoString ->
                    /\ pending_api_requests' =
                           PendingAfterResponse(pending_api_requests, req_id, payload)
                    /\ in_str' = [in_str EXCEPT ![h][string_id] = NoString]
                    /\ response' = Answer(h, "dapi_res", "Forwarded response")
             [] branch = "pending" /\ payload = NoString ->
                    /\ response' = Answer(h, "dapi_res", "KeyError")
                    /\ UNCHANGED <<pending_api_requests, in_str>>
             [] branch = "local" ->
                    /\ response' = Answer(h, "dapi_res", "Response forwarded to worker")
                    /\ UNCHANGED <<pending_api_requests, in_str>>
             [] OTHER ->
                    /\ response' = Answer(h, "dapi_res", "3032")
                    /\ UNCHANGED <<pending_api_requests, in_str>>
    /\ completed' = NoTask
    /\ UNCHANGED <<connVars, syncVars, local_clients, calls>>
    /\ UNCHANGED pureVars

\* a client of the local API server connects, or goes away
LocalClientChange(n) ==
    /\ local_clients' = IF n \in local_clients THEN local_clients \ {n}
                        ELSE local_clients \cup {n}
    /\ response' = NoAnswer /\ completed' = NoTask
    /\ UNCHANGED <<connVars, syncVars, pending_api_requests, in_str, calls>>
    /\ UNCHANGED pureVars

(* -------------------- sync_wazuh_db_info, chunk by chunk --------------- *)
machineVars == <<connVars, handlerVars, sync_tasks, serverVars, response, completed, dapiVars>>

\* the payload stored under the task id, what wazuh-db will do with each of
\* its chunks, and the status record a previous round left
WdbInit ==
    wdb \in {[NoWdb EXCEPT !.pc = "start", !.payload = payload, !.chunks = chunks,
                           !.n_synced_chunks = n] :
                payload \in Payloads, chunks \in ChunkSeqs, n \in 0..MaxChunks}

\* self.in_str[task_id].payload, json.loads: KeyError and ValueError send
\* syn_m_a_err, a parsed payload enters the loop
WdbStart ==
    /\ wdb.pc = "start"
    /\ wdb' = IF wdb.payload = "json"
              THEN [wdb EXCEPT !.pc = "loop"]
              ELSE [wdb EXCEPT !.pc = "send_a_err", !.sent = Append(@, "syn_m_a_err")]
    /\ UNCHANGED <<machineVars, unmerged, merged, health>>

\* send_request(syn_m_a_err) returned: raise WazuhClusterError
WdbRaise ==
    /\ wdb.pc = "send_a_err"
    /\ wdb' = [wdb EXCEPT !.pc = "failed", !.exc = ExcOfPayload(wdb.payload)]
    /\ UNCHANGED <<machineVars, unmerged, merged, health>>

\* a loop that counts every chunk as updated
UpdatedAfterChunk_All(outcome, updated) == updated + 1

\* result['updated_chunks'] after one chunk
UpdatedAfterChunk(outcome, updated) == IF outcome = "ok" THEN updated + 1 ELSE updated

\* result['error_messages'] after chunk i: the response that is not ok, or
\* the text of the exception
ErrorsAfterChunk(outcome, i, errors) == IF outcome = "ok" THEN errors ELSE Append(errors, i)

\* one iteration of the for loop: wdb_conn.send of the next chunk
WdbChunk ==
    /\ wdb.pc = "loop"
    /\ Len(wdb.commands) < Len(wdb.chunks)
    /\ LET i == Len(wdb.commands) + 1
           outcome == wdb.chunks[i] IN
       wdb' = [wdb EXCEPT !.commands = Append(@, i),
                          !.updated_chunks = UpdatedAfterChunk(outcome, @),
                          !.error_messages = ErrorsAfterChunk(outcome, i, @)]
    /\ UNCHANGED <<machineVars, unmerged, merged, health>>

\* the loop is over: send_request(syn_m_a_e, json.dumps(result))
WdbSendEnd ==
    /\ wdb.pc = "loop"
    /\ Len(wdb.commands) = Len(wdb.chunks)
    /\ wdb' = [wdb EXCEPT !.pc = "send_a_e", !.sent = Append(@, "syn_m_a_e")]
    /\ UNCHANGED <<machineVars, unmerged, merged, health>>

\* send_request returned: sync_agent_info_status.update(...)
WdbStatus ==
    /\ wdb.pc = "send_a_e"
    /\ wdb' = [wdb EXCEPT !.pc = "done", !.n_synced_chunks = wdb.updated_chunks,
                          !.stamped = TRUE]
    /\ UNCHANGED <<machineVars, unmerged, merged, health>>

(* ------------- process_files_from_worker.update_file, one member -------- *)
\* a time read with whole seconds: int(st_mtime), timegm(mtime.timetuple())
Seconds(m) == 2 * (m \div 2)

\* one member of a merged file with its file_time, the destination file as it
\* is on the master, and whether the master knows the agent
MemberInit ==
    unmerged \in {[NoMember EXCEPT !.pc = "apply", !.mtime = m, !.dest = d,
                                   !.agent_known = known] :
                     m \in Mtimes, d \in Mtimes \cup {Absent}, known \in BOOLEAN}

\* os.path.isfile(full_unmerged_name) and local_mtime > mtime
MemberSkipped(dest, mtime) == dest # Absent /\ Seconds(dest) > mtime

\* the body of the loop over unmerge_info for this member; write_ok is
\* whether open, write and safe_move went through
ApplyMember(write_ok) ==
    /\ unmerged.pc = "apply"
    /\ unmerged.applied < MaxApply
    /\ LET written == /\ unmerged.agent_known
                      /\ ~MemberSkipped(unmerged.dest, unmerged.mtime)
                      /\ write_ok IN
       unmerged' = [unmerged EXCEPT
           !.applied = @ + 1,
           !.skippable = unmerged.dest # Absent /\ unmerged.dest >= unmerged.mtime,
           !.rewritten = written,
           !.dest = IF written THEN Seconds(unmerged.mtime) ELSE @,
           !.total_extra_valid = IF written THEN @ + 1 ELSE @]
    /\ UNCHANGED <<machineVars, wdb, merged, health>>

(* ------- process_files_from_worker.update_file, the loop over members --- *)
\* the members unmerge_info yields for one merged file
MergedInit ==
    merged \in {[NoMerged EXCEPT !.pc = "loop", !.members = ms] : ms \in MemberSeqs}

\* whether the iteration for a member reaches asyncio.sleep(0) at the end of
\* the loop body: the two skips leave the body with continue
ReachesSleep(outcome) == outcome \in {"written", "failed"}

\* the members the coroutine goes through in one step, from the member after
\* the done ones to the first one whose iteration reaches the sleep
RECURSIVE BatchFrom(_, _)
BatchFrom(members, done) ==
    IF done >= Len(members) THEN 0
    ELSE IF ReachesSleep(members[done + 1]) THEN 1
    ELSE 1 + BatchFrom(members, done + 1)

\* the coroutine runs from where it is to its next await, or to the end of
\* the loop
UpdateFileStep ==
    /\ merged.pc = "loop"
    /\ LET batch == BatchFrom(merged.members, merged.done) IN
       merged' = [merged EXCEPT
           !.batch = batch,
           !.done = @ + batch,
           !.pc = IF merged.done + batch >= Len(merged.members)
                     /\ (batch = 0 \/ ~ReachesSleep(merged.members[merged.done + batch]))
                  THEN "done" ELSE "loop"]
    /\ UNCHANGED <<machineVars, wdb, unmerged, health>>

(* ------------------------------ get_health ----------------------------- *)
\* the workers in self.clients and the filter the caller passes
HealthInit ==
    health \in {[NoHealth EXCEPT !.pc = "call", !.connected = ws, !.filter_node = f] :
                   ws \in SUBSET WorkerNames, f \in Filters}

\* filter_node is None or filter_node == {} or key in filter_node
WorkerSelected(key, f) == f.kind = "None" \/ (f.kind = "dict" /\ f.names = {}) \/ key \in f.names

\* filter_node is None or self.configuration['node_name'] in filter_node
MasterSelected(f) == f.kind = "None" \/ MasterName \in f.names

GetHealth ==
    /\ health.pc = "call"
    /\ LET workers_info == {key \in health.connected : WorkerSelected(key, health.filter_node)} IN
       health' = [health EXCEPT
           !.pc = "returned",
           !.n_connected_nodes = Cardinality(workers_info),
           !.nodes = workers_info \cup
                       (IF MasterSelected(health.filter_node) THEN {MasterName} ELSE {})]
    /\ UNCHANGED <<machineVars, wdb, unmerged, merged>>

(* ------------------------------ behaviours ----------------------------- *)
Connection ==
    \E h \in Handlers :
        \/ ConnectionMade(h)
        \/ \E n \in Names, c, v \in BOOLEAN : Hello(h, n, c, v)
        \/ ConnectionLost(h)

Command ==
    \E h \in Handlers :
        \/ \E sync_type \in {"syn_i_w_m_p", "syn_a_w_m_p"} : GetPermission(h, sync_type)
        \/ \E sync_type \in {"syn_i_w_m", "syn_e_w_m", "syn_a_w_m"} :
               SetupSyncIntegrity(h, sync_type)
        \/ \E t \in TaskIds : EndReceivingIntegrityChecksums(h, t)
        \/ \E t \in TaskIds \cup {0} : ProcessSyncErrorFromWorker(h, t)

Coroutine ==
    \E t \in TaskIds :
        \/ IntegrityReceived(t)
        \/ IntegrityTimeout(t)
        \/ \E d \in BOOLEAN, ko \in Buckets : IntegrityCompare(t, d, ko)
        \/ IntegritySendOk(t)
        \/ \E ok \in BOOLEAN : IntegrityPushStart(t, ok)
        \/ \E ok \in BOOLEAN : IntegrityPushFile(t, ok)
        \/ \E ok \in BOOLEAN : IntegrityPushEnd(t, ok)
        \/ IntegrityPushError(t)
        \/ ExtraValidReceived(t)
        \/ ExtraValidTimeout(t)
        \/ \E d \in BOOLEAN : ExtraValidDecompress(t, d)
        \/ \E a \in BOOLEAN : ExtraValidApply(t, a)
        \/ \E p \in Payloads : AgentInfoStart(t, p)
        \/ AgentInfoSendErr(t)
        \/ \E ok \in BOOLEAN : AgentInfoSendEnd(t, ok)
        \/ TaskCancelled(t)
        \/ DoneCallback(t)

SnapshotLoop ==
    \/ \E computed \in BOOLEAN, snap \in Snapshots : FileStatusUpdate(computed, snap)
    \/ FileStatusSleep

Next == Connection \/ Command \/ Coroutine \/ SnapshotLoop

Spec == Init /\ [][Next]_vars

(* the correlator with the connections it depends on *)
Dapi ==
    \/ \E c \in CallIds, h \in Handlers, command \in ExecuteCommands,
          client \in Names \cup {Stranger}, w, ok \in BOOLEAN :
           Execute(c, h, command, client, w, ok)
    \/ \E c \in CallIds : ExecuteSent(c)
    \/ \E c \in CallIds : ExecuteReturn(c)
    \/ \E c \in CallIds : ExecuteTimeout(c)
    \/ \E h \in Handlers, sid \in StringIds, p \in ResponsePayloads : ReceiveString(h, sid, p)
    \/ \E h \in Handlers, r \in RequestIds, sid \in StringIds : ProcessDapiRes(h, r, sid)
    \/ \E n \in LocalNames : LocalClientChange(n)

NextDapi == Connection \/ Dapi

SpecDapi == Init /\ [][NextDapi]_vars

(* the snapshot loop with the connections and probes that read its set *)
NextLoop ==
    \/ Connection
    \/ \E h \in Handlers, sync_type \in {"syn_i_w_m_p", "syn_a_w_m_p"} :
           GetPermission(h, sync_type)
    \/ SnapshotLoop

\* the event loop runs the loop's task whenever its await is over: the
\* executor's future is done, the sleep's timer is due
SpecLoopLive ==
    /\ Init /\ [][NextLoop]_vars
    /\ WF_vars(\E computed \in BOOLEAN, snap \in Snapshots : FileStatusUpdate(computed, snap))
    /\ WF_vars(FileStatusSleep)

(* one run of sync_wazuh_db_info on a payload *)
NextWdb == WdbStart \/ WdbRaise \/ WdbChunk \/ WdbSendEnd \/ WdbStatus

InitWdb == ServerInit /\ WdbInit /\ unmerged = NoMember /\ merged = NoMerged /\ health = NoHealth

SpecWdb == InitWdb /\ [][NextWdb]_vars

(* one member of a merged file applied up to MaxApply times *)
NextMember == \E write_ok \in BOOLEAN : ApplyMember(write_ok)

InitMember == ServerInit /\ MemberInit /\ wdb = NoWdb /\ merged = NoMerged /\ health = NoHealth

SpecMember == InitMember /\ [][NextMember]_vars

(* the loop of update_file over one merged file *)
NextMerged == UpdateFileStep

InitMerged ==
    ServerInit /\ MergedInit /\ wdb = NoWdb /\ unmerged = NoMember /\ health = NoHealth

SpecMerged == InitMerged /\ [][NextMerged]_vars

(* one call of get_health *)
NextHealth == GetHealth

InitHealth == ServerInit /\ HealthInit /\ wdb = NoWdb /\ unmerged = NoMember /\ merged = NoMerged

SpecHealth == InitHealth /\ [][NextHealth]_vars

(* the correlator with several calls pending at once *)
DapiPending ==
    \/ \E c \in PendingIds, h \in Handlers, command \in ExecuteCommands,
          client \in Names \cup {Stranger}, w, ok \in BOOLEAN :
           Execute(c, h, command, client, w, ok)
    \/ \E c \in PendingIds : ExecuteSent(c)
    \/ \E c \in PendingIds : ExecuteReturn(c)
    \/ \E c \in PendingIds : ExecuteTimeout(c)
    \/ \E h \in Handlers, sid \in StringIds, p \in ResponsePayloads : ReceiveString(h, sid, p)
    \/ \E h \in Handlers, r \in PendingIds \cup {0}, sid \in StringIds :
           ProcessDapiRes(h, r, sid)

NextDapiPending == Connection \/ DapiPending

SpecDapiPending == Init /\ [][NextDapiPending]_vars

\* the event loop runs every callback that is ready and every timer that is
\* due: a waiter whose signal is set resumes, a bounded wait expires
SpecDapiLive ==
    /\ SpecDapi
    /\ \A c \in CallIds : WF_vars(ExecuteReturn(c)) /\ WF_vars(ExecuteTimeout(c))

(* the integrity round of a session: its commands and its two coroutines *)
RoundCommand ==
    \E h \in Handlers :
        \/ \E sync_type \in {"syn_i_w_m", "syn_e_w_m"} : SetupSyncIntegrity(h, sync_type)
        \/ \E t \in TaskIds : EndReceivingIntegrityChecksums(h, t)
        \/ \E t \in TaskIds \cup {0} : ProcessSyncErrorFromWorker(h, t)

\* the steps the event loop takes for task t: its coroutine up to the next
\* await, the timeout of its wait, its cancellation, its done_callback
RoundStep(t) ==
    \/ IntegrityReceived(t)
    \/ IntegrityTimeout(t)
    \/ \E d \in BOOLEAN, ko \in Buckets : IntegrityCompare(t, d, ko)
    \/ IntegritySendOk(t)
    \/ \E ok \in BOOLEAN : IntegrityPushStart(t, ok)
    \/ \E ok \in BOOLEAN : IntegrityPushFile(t, ok)
    \/ \E ok \in BOOLEAN : IntegrityPushEnd(t, ok)
    \/ IntegrityPushError(t)
    \/ ExtraValidReceived(t)
    \/ ExtraValidTimeout(t)
    \/ \E d \in BOOLEAN : ExtraValidDecompress(t, d)
    \/ \E a \in BOOLEAN : ExtraValidApply(t, a)
    \/ TaskCancelled(t)
    \/ DoneCallback(t)

NextRound == Connection \/ RoundCommand \/ (\E t \in TaskIds : RoundStep(t))

\* the event loop runs every task that is ready: a coroutine whose await is
\* over resumes, a wait whose timeout is due expires, a finished task's
\* done_callback is called.  What the worker sends is up to the worker.
SpecRoundLive ==
    /\ Init /\ [][NextRound]_vars
    /\ \A t \in TaskIds : WF_vars(RoundStep(t))

(* =============================== claims ================================ *)
\* the integrity and extra-valid tasks of handler h whose coroutine has not ended
InFlight(h) == {t \in TasksOf(h) : sync_tasks[t].kind \in {"integrity", "extra_valid"}
                                    /\ ~Finished(t)}

\* C1: in every reachable state a session has at most one integrity or
\* extra-valid ReceiveTask in flight, whatever commands the worker sends.
C1_AtMostOneRoundInFlight == \A h \in Handlers : Cardinality(InFlight(h)) <= 1

\* C2: in every reachable state of a session extra_valid_requested = true
\* implies sync_integrity_free = false.
C2_ExtraValidRequestedImpliesReserved ==
    \A h \in Handlers : extra_valid_requested[h] => ~sync_integrity_free[h]

\* C3: from the handling of syn_i_w_m until the integrity task completed
\* with no extra-valid requested or, when one was requested, until the
\* extra-valid round finished, sync_integrity_free is false.
C3_ReservedThroughoutRound ==
    \A h \in Handlers :
        ((\E t \in TasksOf(h) : sync_tasks[t].kind = "integrity") \/ extra_valid_requested[h])
            => ~sync_integrity_free[h]

\* the steps that may release the integrity slot of handler h
ReleaseStep(h) ==
    \/ \E t \in TasksOf(h) : /\ sync_tasks[t].kind = "integrity"
                             /\ ~extra_valid_requested[h]
                             /\ DoneCallback(t)
    \/ \E t \in TasksOf(h) : /\ sync_tasks[t].kind = "extra_valid"
                             /\ DoneCallback(t) \/ ExtraValidApply(t, TRUE)
    \/ \E t \in TaskIds \cup {0} : ProcessSyncErrorFromWorker(h, t)

\* C4: sync_integrity_free of a handler goes from false to true only in the
\* completion of an integrity task while extra_valid_requested is false, in
\* the completion of an extra-valid round, or in the handling of syn_i_w_m_r
\* (a new handler object built in the slot is not a change of the old one).
C4_ReleasedOnlyByCompletionOrError ==
    [][\A h \in Handlers :
          (~sync_integrity_free[h] /\ sync_integrity_free'[h] /\ ~ConnectionMade(h))
              => ReleaseStep(h)]_vars

\* C4 witness: syn_i_w_m_r was just handled and released the slot while the
\* integrity task that reserved it is still there
C4_Witness ==
    \E h \in Handlers :
        /\ response = Answer(h, "syn_i_w_m_r", "ok")
        /\ sync_integrity_free[h]
        /\ \E t \in TasksOf(h) : sync_tasks[t].kind = "integrity"

\* C5: between two clears of integrity_already_executed at most one
\* integrity probe of a name is answered True: a probe records the name, and
\* a probe from a recorded name is answered False whatever the slot holds.
C5_OneGrantPerCycle ==
    /\ [](\A n \in Names : granted[n] <= 1)
    /\ [][\A h \in Handlers :
             GetPermission(h, "syn_i_w_m_p") =>
                 /\ name[h] \in integrity_already_executed'
                 /\ name[h] \in integrity_already_executed => response'.msg = "False"]_vars

\* C5 witness: an integrity probe was just answered False to a worker that
\* was granted one in this cycle, although its slot is free
C5_Witness ==
    \E h \in Handlers :
        /\ response = Answer(h, "syn_i_w_m_p", "False")
        /\ sync_integrity_free[h]
        /\ granted[name[h]] = 1

\* C6 (as stated): whenever an iteration of file_status_update reaches its
\* sleep, integrity_already_executed is empty, whatever the outcome of the
\* snapshot computation.
C6_EmptyAtEverySleep ==
    [][(fsu_pc = "compute" /\ fsu_pc' = "sleep") => integrity_already_executed' = {}]_vars

\* C6 (amended): an iteration whose snapshot computation returned reaches
\* its sleep with integrity_already_executed empty; an iteration whose
\* computation raised reaches it with the set as it was.
C6_EmptyAfterComputedIteration ==
    [][\A computed \in BOOLEAN, snap \in Snapshots :
          FileStatusUpdate(computed, snap) =>
              IF computed THEN integrity_already_executed' = {}
              ELSE integrity_already_executed' = integrity_already_executed]_vars

\* C6 witness: the loop sleeps after an iteration published a snapshot and
\* cleared the set, with a worker registered
C6_Witness ==
    /\ fsu_pc = "sleep"
    /\ integrity_control # FullSnapshot(0)
    /\ integrity_already_executed = {}
    /\ \E h \in Handlers : Named(h)

\* C7 (as stated): right after syn_i_w_m or syn_e_w_m is handled
\* sync_integrity_free is false, and right after syn_a_w_m is handled
\* sync_agent_info_free is false.
C7_BeginReceiveReserves ==
    \A h \in Handlers :
        /\ (response.to = h /\ response.cmd \in {"syn_i_w_m", "syn_e_w_m"})
               => ~sync_integrity_free[h]
        /\ (response.to = h /\ response.cmd = "syn_a_w_m") => ~sync_agent_info_free[h]

\* C7 (amended): right after syn_i_w_m is handled sync_integrity_free is
\* false and right after syn_a_w_m is handled sync_agent_info_free is false,
\* whatever they held before; handling syn_e_w_m leaves sync_integrity_free
\* as it was.
C7_IntegrityAndAgentInfoReserve ==
    /\ [](\A h \in Handlers :
            /\ (response.to = h /\ response.cmd = "syn_i_w_m") => ~sync_integrity_free[h]
            /\ (response.to = h /\ response.cmd = "syn_a_w_m") => ~sync_agent_info_free[h])
    /\ [][\A h \in Handlers :
             SetupSyncIntegrity(h, "syn_e_w_m") =>
                 sync_integrity_free'[h] = sync_integrity_free[h]]_vars

\* C7 witness: syn_e_w_m was just handled and the integrity slot is still free
C7_Witness ==
    \E h \in Handlers :
        /\ response.to = h /\ response.cmd = "syn_e_w_m"
        /\ sync_integrity_free[h]
        /\ \E t \in TasksOf(h) : sync_tasks[t].kind = "extra_valid"

Probes == {"syn_i_w_m_p", "syn_a_w_m_p"}

\* C8: a permission probe answers with the current slot value and changes
\* no slot: syn_a_w_m_p answers sync_agent_info_free and leaves
\* integrity_already_executed alone, syn_i_w_m_p from a name not yet recorded
\* answers sync_integrity_free, and no probe is answered True while its slot
\* is reserved.
C8_ProbeAnswersSlotValue ==
    /\ [](\A h \in Handlers :
            /\ (response.to = h /\ response.cmd = "syn_a_w_m_p")
                   => response.msg = BoolStr(sync_agent_info_free[h])
            /\ (response.to = h /\ response.cmd = "syn_i_w_m_p" /\ response.msg = "True")
                   => sync_integrity_free[h])
    /\ [][/\ response'.cmd \in Probes => UNCHANGED handlerVars
          /\ response'.cmd = "syn_a_w_m_p" => UNCHANGED integrity_already_executed
          /\ \A h \in Handlers :
                (GetPermission(h, "syn_i_w_m_p") /\ name[h] \notin integrity_already_executed)
                    => response'.msg = BoolStr(sync_integrity_free[h])]_vars

\* C8 witness: an agent-info probe was just answered False because the
\* agent-info slot is reserved by a task in flight
C8_Witness ==
    \E h \in Handlers :
        /\ response = Answer(h, "syn_a_w_m_p", "False")
        /\ ~sync_agent_info_free[h]
        /\ \E t \in TasksOf(h) : sync_tasks[t].kind = "agent_info"

\* a step of handler h's agent-info round: its probe, its begin-receive, or
\* a step of one of its agent-info tasks (coroutine, cancellation, callback)
AgentInfoStep(h) ==
    \/ response'.to = h /\ response'.cmd \in {"syn_a_w_m_p", "syn_a_w_m"}
    \/ \E t \in TasksOf(h) : /\ sync_tasks[t].kind = "agent_info"
                             /\ sync_tasks'[t] # sync_tasks[t]

\* a step of handler h's integrity or extra-valid round
IntegrityStep(h) ==
    \/ /\ response'.to = h
       /\ response'.cmd \in {"syn_i_w_m_p", "syn_i_w_m", "syn_e_w_m", "syn_i_w_m_e", "syn_i_w_m_r"}
    \/ \E t \in TasksOf(h) : /\ sync_tasks[t].kind \in {"integrity", "extra_valid"}
                             /\ sync_tasks'[t] # sync_tasks[t]

\* C9: the two slots are independent: no step of an agent-info round changes
\* sync_integrity_free or extra_valid_requested, no step of an integrity or
\* extra-valid round changes sync_agent_info_free, and both rounds may be in
\* flight in one session at once (the witness).
C9_SlotsIndependent ==
    [][\A h \in Handlers :
          /\ AgentInfoStep(h) =>
                 /\ sync_integrity_free'[h] = sync_integrity_free[h]
                 /\ extra_valid_requested'[h] = extra_valid_requested[h]
          /\ IntegrityStep(h) => sync_agent_info_free'[h] = sync_agent_info_free[h]]_vars

\* C9 witness: an agent-info task and an integrity task of one session are
\* both in flight, each holding its slot
C9_Witness ==
    \E h \in Handlers : \E t, u \in TasksOf(h) :
        /\ sync_tasks[t].kind = "agent_info" /\ ~Finished(t)
        /\ sync_tasks[u].kind = "integrity" /\ ~Finished(u)
        /\ ~sync_agent_info_free[h]
        /\ ~sync_integrity_free[h]
        /\ conn[h] = "open"

\* C10: when the wait for the inbound artifact of sync_integrity or
\* sync_extra_valid expired, the integrity slot is free once the failed
\* task has completed (its done_callback ran), in whatever state the round
\* was started.
C10_TimeoutReleasesSlot ==
    [][\A t \in TaskIds :
          (/\ sync_tasks[t].kind \in {"integrity", "extra_valid"}
           /\ sync_tasks[t].exc = "timeout"
           /\ DoneCallback(t))
              => sync_integrity_free'[Owner(t)]]_vars

\* C11: when the task of an extra-valid round has completed (its
\* done_callback ran), normally, with an error or by cancellation,
\* extra_valid_requested is false and sync_integrity_free is true.
C11_ExtraValidCompletionReleases ==
    completed.kind = "extra_valid" =>
        /\ ~extra_valid_requested[completed.wazuh_common]
        /\ sync_integrity_free[completed.wazuh_common]

\* C11 witness: an extra-valid task whose file apply failed has just
\* completed
C11_Witness ==
    /\ completed.kind = "extra_valid"
    /\ completed.pc = "done_error"
    /\ completed.exc = "apply"
    /\ sync_integrity_free[completed.wazuh_common]

\* C12: when the task of an agent-info round has completed, on success or
\* on failure, sync_agent_info_free is true; the slot is never false while no
\* agent-info task of the session exists.
C12_AgentInfoCompletionReleases ==
    /\ completed.kind = "agent_info" => sync_agent_info_free[completed.wazuh_common]
    /\ \A h \in Handlers :
           (\A t \in TasksOf(h) : sync_tasks[t].kind # "agent_info")
               => sync_agent_info_free[h]

\* C12 witness: an agent-info task that failed on malformed JSON has just
\* completed and no other agent-info task of the session is left
C12_Witness ==
    /\ completed.kind = "agent_info"
    /\ completed.pc = "done_error"
    /\ completed.exc = "3036"
    /\ \A t \in TasksOf(completed.wazuh_common) : sync_tasks[t].kind # "agent_info"
    /\ sync_agent_info_free[completed.wazuh_common]

C14_LostConnectionCancelsTasks ==
    /\ [](\A h \in Handlers : conn[h] = "lost" =>
             \A t \in TasksOf(h) : Finished(t) \/ sync_tasks[t].cancel)
    /\ [][\A t \in TaskIds :
             (/\ sync_tasks[t].kind # "none"
              /\ conn[Owner(t)] = "lost"
              /\ sync_tasks'[t] # sync_tasks[t])
                 => TaskCancelled(t) \/ DoneCallback(t)]_vars

\* C14 witness: an integrity task was cancelled in the middle of its push
\* after the connection of its session was lost
C14_Witness ==
    \E t \in TaskIds :
        /\ sync_tasks[t].kind = "integrity"
        /\ conn[Owner(t)] = "lost"
        /\ sync_tasks[t].pc = "done_cancelled"
        /\ sync_tasks[t].sent = "syn_m_c"

\* C15: an integrity task whose diff found four empty buckets sent
\* syn_m_c_ok and no push command, and once it has completed
\* extra_valid_requested is false and sync_integrity_free is true.
C15_NoChangesRoundFreesSlot ==
    (completed.kind = "integrity" /\ completed.sent = "syn_m_c_ok") =>
        /\ ~extra_valid_requested[completed.wazuh_common]
        /\ sync_integrity_free[completed.wazuh_common]

\* C16: every failing step of the push (syn_m_c, the streaming of the
\* archive, syn_m_c_e) makes the coroutine send syn_m_c_r, and no coroutine
\* ends, by return, error or cancellation, with its archive on the disk.
C16_PushErrorReportedArchiveDeleted ==
    /\ [](/\ ~completed.archive
          /\ \A t \in TaskIds : Finished(t) => ~sync_tasks[t].archive)
    /\ [][\A t \in TaskIds :
             (\/ IntegrityPushStart(t, FALSE)
              \/ IntegrityPushFile(t, FALSE)
              \/ IntegrityPushEnd(t, FALSE))
                 => /\ sync_tasks'[t].pc = "send_c_r"
                    /\ sync_tasks'[t].sent = "syn_m_c_r"
                    /\ sync_tasks'[t].archive]_vars

\* C16 witness: a push that failed has ended after its syn_m_c_r, and its
\* archive is gone
C16_Witness ==
    \E t \in TaskIds :
        /\ sync_tasks[t].kind = "integrity"
        /\ sync_tasks[t].pc = "done_ok"
        /\ sync_tasks[t].sent = "syn_m_c_r"
        /\ ~sync_tasks[t].archive

\* the execute calls that have returned or failed
Ended(c) == calls[c].pc \in {"returned", "failed"}

\* C17: the entry an execute call inserted into pending_api_requests is gone
\* once the call has returned or failed.
C17_NoEntryAfterExecuteEnded ==
    \A c \in CallIds : Ended(c) => ~pending_api_requests[c].present

\* C18: an execute of dapi_fwd with wait_for_complete = false for a client
\* that is not connected failed with the worker-not-found error, sent no
\* dapi request and left no entry in pending_api_requests.
C18_ForwardToUnknownWorker ==
    \A c \in CallIds :
        (/\ calls[c].command = "dapi_fwd"
         /\ ~calls[c].wait_for_complete
         /\ calls[c].pc = "failed"
         /\ calls[c].result = "3022")
            => /\ calls[c].sent_to = 0
               /\ ~pending_api_requests[c].present

\* C19: process_dapi_res dispatches three ways in this order: a request id
\* in pending_api_requests gets the payload of the received string as its
\* response, its waiter is signalled and the string leaves in_str; else a
\* request id that names a local API client is forwarded and no table entry
\* is touched; else the call fails with error 3032 and changes nothing.
C19_DapiResDispatch ==
    [][\A h \in Handlers, r \in RequestIds, sid \in StringIds :
          ProcessDapiRes(h, r, sid) =>
              IF pending_api_requests[r].present
              THEN in_str[h][sid] # NoString =>
                       /\ pending_api_requests' = [pending_api_requests EXCEPT
                              ![r] = [present |-> TRUE, Event |-> TRUE,
                                      Response |-> in_str[h][sid]]]
                       /\ in_str' = [in_str EXCEPT ![h][sid] = NoString]
                       /\ response'.msg = "Forwarded response"
              ELSE IF r \in local_clients
              THEN /\ response'.msg = "Response forwarded to worker"
                   /\ UNCHANGED <<pending_api_requests, in_str, calls>>
              ELSE /\ response'.msg = "3032"
                   /\ UNCHANGED <<connVars, syncVars, dapiVars>>]_vars

\* C19 witness: a dapi_res whose request id is in pending_api_requests and
\* is the name of a local API client as well was just handled: the response
\* went to the table entry
C19_Witness ==
    \E h \in Handlers, c \in CallIds :
        /\ response = Answer(h, "dapi_res", "Forwarded response")
        /\ c \in local_clients
        /\ pending_api_requests[c].Event
        /\ pending_api_requests[c].Response \in ResponsePayloads
        /\ calls[c].pc = "waiting"

\* C20: an execute of dapi or dapi_fwd with wait_for_complete = false that
\* waits for its response ends: it returns the response stored for its
\* request id once the waiter was signalled, and fails with error 3021 when
\* the wait expired first; with wait_for_complete = true it never fails with
\* error 3021 and returns only what a dapi_res stored.
C20_ExecuteTerminates ==
    /\ \A c \in CallIds :
           (calls[c].pc = "waiting" /\ ~calls[c].wait_for_complete) ~> Ended(c)
    /\ [](\A c \in CallIds :
             (calls[c].wait_for_complete /\ calls[c].pc = "failed")
                 => calls[c].result # "3021")
    /\ [][\A c \in CallIds :
             /\ (calls[c].pc = "waiting" /\ calls'[c].pc = "returned") =>
                    /\ pending_api_requests[c].Event
                    /\ calls'[c].result = pending_api_requests[c].Response
                    /\ calls'[c].result \in ResponsePayloads
             /\ (calls[c].pc = "waiting" /\ calls'[c].pc = "failed") =>
                    /\ ~pending_api_requests[c].Event
                    /\ calls'[c].result = "3021"]_vars

\* C20 witness: an execute of dapi_fwd with wait_for_complete = false has
\* returned the response a dapi_res delivered
C20_Witness ==
    \E c \in CallIds :
        /\ calls[c].command = "dapi_fwd"
        /\ ~calls[c].wait_for_complete
        /\ calls[c].pc = "returned"
        /\ calls[c].result \in ResponsePayloads

\* C21: on a well-formed payload of n chunks sync_wazuh_db_info sends the n
\* chunks to wazuh-db in their order, whatever wazuh-db answers and whether
\* or not a send raises, and then sends syn_m_a_e once; updated_chunks is the
\* number of chunks answered ok, error_messages has one entry for each other
\* chunk, so the two add up to n.
C21_AgentInfoChunksCounted ==
    wdb.payload = "json" =>
        /\ wdb.pc \in {"start", "loop", "send_a_e", "done"}
        /\ Len(wdb.commands) <= Len(wdb.chunks)
        /\ wdb.commands = [i \in 1..Len(wdb.commands) |-> i]
        /\ wdb.pc \in {"start", "loop"} => wdb.sent = <<>>
        /\ wdb.pc \in {"send_a_e", "done"} =>
               /\ Len(wdb.commands) = Len(wdb.chunks)
               /\ wdb.sent = <<"syn_m_a_e">>
               /\ wdb.updated_chunks =
                      Cardinality({i \in 1..Len(wdb.chunks) : wdb.chunks[i] = "ok"})
               /\ Len(wdb.error_messages) =
                      Cardinality({i \in 1..Len(wdb.chunks) : wdb.chunks[i] # "ok"})
               /\ \A k \in 1..Len(wdb.error_messages) :
                      wdb.chunks[wdb.error_messages[k]] # "ok"
               /\ wdb.updated_chunks + Len(wdb.error_messages) = Len(wdb.chunks)

\* C21 witness: a payload of MaxChunks chunks, one answered ok, one answered
\* with an error and one whose send raised, was acknowledged
C21_Witness ==
    /\ wdb.pc = "done"
    /\ Len(wdb.chunks) = MaxChunks
    /\ \E i, j \in 1..Len(wdb.chunks) : wdb.chunks[i] = "err" /\ wdb.chunks[j] = "exc"
    /\ wdb.updated_chunks = 1
    /\ wdb.sent = <<"syn_m_a_e">>

\* C22: when the string of the task id is missing or is not JSON,
\* sync_wazuh_db_info sends syn_m_a_err and then fails with error 3035,
\* respectively 3036; it sends nothing to wazuh-db, sends no syn_m_a_e and
\* leaves sync_agent_info_status as it was.
C22_BadPayloadReported ==
    /\ [](wdb.payload \in {"missing", "bad_json"} =>
            /\ wdb.pc \in {"start", "send_a_err", "failed"}
            /\ wdb.commands = <<>>
            /\ ~wdb.stamped
            /\ wdb.sent = IF wdb.pc = "start" THEN <<>> ELSE <<"syn_m_a_err">>
            /\ wdb.pc = "failed" =>
                   wdb.exc = IF wdb.payload = "missing" THEN "3035" ELSE "3036")
    /\ [][wdb.payload \in {"missing", "bad_json"} =>
              wdb'.n_synced_chunks = wdb.n_synced_chunks]_vars

\* C22 witness: a run on a string that is not JSON has failed, and the status
\* record still shows the chunks of an earlier round
C22_Witness ==
    /\ wdb.payload = "bad_json"
    /\ wdb.pc = "failed"
    /\ wdb.exc = "3036"
    /\ wdb.n_synced_chunks > 0

\* C23: a hello that was just rejected for its cluster name (3030) or its
\* version (3031) left nothing behind: the name it gave is not in clients.
C23_RejectedHelloLeavesNoTrace ==
    \A h \in Handlers :
        (response.to = h /\ response.cmd = "hello" /\ response.msg \in {"3030", "3031"})
            => name[h] \notin clients

\* the integrity tasks whose coroutine is about to diff the worker's metadata
\* against integrity_control
AtDiff(t) == Runs(t, "integrity", "decompress")

\* C24: whatever the interleaving of file_status_update with the sessions'
\* coroutines, integrity_control is at every moment one complete result of
\* get_files_status, so the diff of a sync_integrity reads the full value
\* published before a publication or the full value published after it; and
\* a publication replaces the whole value in the one step in which the
\* computation returns.
C24_DiffReadsFullSnapshot ==
    /\ [](\E snap \in Snapshots : integrity_control = FullSnapshot(snap))
    /\ [][integrity_control' # integrity_control =>
              /\ fsu_pc = "compute"
              /\ \E snap \in Snapshots : integrity_control' = FullSnapshot(snap)]_vars

\* C24 witness: a sync_integrity is about to run its diff after
\* file_status_update published a new snapshot
C24_Witness ==
    \E t \in TaskIds :
        /\ AtDiff(t)
        /\ integrity_control = FullSnapshot(MaxSnapshot)
        /\ integrity_control # FullSnapshot(0)

\* C25: an iteration of file_status_update whose computation raised leaves
\* integrity_control as it was and goes on to its sleep, and an iteration
\* follows it: the loop is at the start of an iteration infinitely often.
C25_LoopSurvivesException ==
    /\ [](fsu_error => fsu_pc = "sleep")
    /\ [][fsu_error' => integrity_control' = integrity_control]_vars
    /\ fsu_error ~> (fsu_pc = "compute")
    /\ []<>(fsu_pc = "compute")

\* C25 witness: the iteration after a published snapshot raised, and the
\* snapshot is still the published one
C25_Witness ==
    /\ fsu_error
    /\ fsu_pc = "sleep"
    /\ integrity_control = FullSnapshot(MaxSnapshot)

\* C26: a member of a merged file whose destination exists with a
\* modification time greater than or equal to the member's own is skipped:
\* the destination is not rewritten and total_extra_valid does not count it,
\* so applying the same archive again changes nothing.
C26_ReapplyIsNoOp == unmerged.skippable => ~unmerged.rewritten

\* what get_health is to return for a filter: every connected worker and the
\* master when the filter is missing or empty, else the connected workers the
\* filter names, and the master if the filter names it
HealthExpected(connected, f) ==
    IF f.kind = "None" \/ f.names = {}
    THEN connected \cup {MasterName}
    ELSE (connected \cap f.names) \cup ({MasterName} \cap f.names)

\* C27: get_health returns the nodes the filter selects: all of them for a
\* missing or empty filter, otherwise the named connected workers plus the
\* master exactly when its name is in the filter.
C27_HealthHonorsFilter ==
    health.pc = "returned" => health.nodes = HealthExpected(health.connected, health.filter_node)

\* C28: the push of a sync_integrity keeps one order: syn_m_c is sent when
\* the diff found changes, the archive is streamed only once syn_m_c was
\* answered with a task id, syn_m_c_e is sent only once the stream is over;
\* when syn_m_c is answered with an error the coroutine goes to syn_m_c_r and
\* neither streams the archive nor sends syn_m_c_e afterwards.
C28_PushOrder ==
    [][\A t \in TaskIds :
          (sync_tasks[t].kind = "integrity" /\ sync_tasks'[t].pc # sync_tasks[t].pc) =>
              /\ sync_tasks'[t].pc = "send_c" =>
                     /\ \E ko \in Buckets : ~NoChanges(ko) /\ IntegrityCompare(t, TRUE, ko)
                     /\ sync_tasks'[t].sent = "syn_m_c"
              /\ sync_tasks'[t].pc = "send_file" =>
                     /\ IntegrityPushStart(t, TRUE)
                     /\ sync_tasks[t].sent = "syn_m_c"
              /\ sync_tasks'[t].pc = "send_c_e" =>
                     /\ IntegrityPushFile(t, TRUE)
                     /\ sync_tasks'[t].sent = "syn_m_c_e"
              /\ IntegrityPushStart(t, FALSE) =>
                     /\ sync_tasks'[t].pc = "send_c_r"
                     /\ sync_tasks'[t].sent = "syn_m_c_r"
              /\ sync_tasks[t].pc = "send_c_r" =>
                     sync_tasks'[t].pc \in {"done_ok", "done_cancelled"}]_vars

\* C28 witness: the archive was streamed after syn_m_c and syn_m_c_e has now
\* been sent
C28_Witness ==
    \E t \in TaskIds :
        /\ sync_tasks[t].kind = "integrity"
        /\ sync_tasks[t].pc = "send_c_e"
        /\ sync_tasks[t].sent = "syn_m_c_e"
        /\ sync_tasks[t].archive

\* C29: no coroutine ends, by return, by an error or by the cancellation of
\* a lost connection, with the staging directory of its decompressed archive
\* on the disk; the directory exists only while sync_worker_files applies it.
C29_StagingDeleted ==
    /\ ~completed.staging
    /\ \A t \in TaskIds :
           /\ Finished(t) => ~sync_tasks[t].staging
           /\ sync_tasks[t].staging =>
                  sync_tasks[t].kind = "extra_valid" /\ sync_tasks[t].pc = "apply"

\* C29 witness: process_files_from_worker raised on a decompressed archive;
\* the coroutine has ended with the error and the directory is gone
C29_Witness ==
    \E t \in TaskIds :
        /\ sync_tasks[t].kind = "extra_valid"
        /\ sync_tasks[t].pc = "done_error"
        /\ sync_tasks[t].exc = "apply"
        /\ ~sync_tasks[t].staging

\* C30: when a sync round is over, date_start_master has taken the value of
\* tmp_date_start_master, whether the round ended by success or by failure:
\* at the done_callback of a sync_integrity that requested no extra-valid
\* files, and at the done_callback of the extra-valid task otherwise, in a
\* session that is still connected and runs no other coroutine.
C30_StartMasterPromotedAtRoundEnd ==
    \A h \in Handlers :
        (/\ completed.wazuh_common = h
         /\ conn[h] = "open"
         /\ InFlight(h) = {}
         /\ \/ completed.kind = "extra_valid"
            \/ completed.kind = "integrity" /\ ~extra_valid_requested[h])
            => ~sync_start_pending[h]

\* C31: update_file yields to the event loop after every member of a merged
\* file, whatever became of the member: no step of the coroutine goes through
\* more than one member.
C31_YieldAfterEachMember == merged.batch <= 1

\* C32: with several execute calls pending, a dapi_res with request id r
\* stores its payload in the entry of r and signals the waiter of r alone: no
\* other entry and no call changes; an entry's response and signal change
\* only by a dapi_res that carries the entry's id; and a call that returns
\* after its wait returns the response stored under its own request id.
C32_ResponseWakesItsCaller ==
    [][/\ \A h \in Handlers, r \in PendingIds \cup {0}, sid \in StringIds :
             ProcessDapiRes(h, r, sid) =>
                 /\ calls' = calls
                 /\ \A q \in PendingIds \cup {0} :
                        q # r => pending_api_requests'[q] = pending_api_requests[q]
       /\ \A c \in PendingIds :
             /\ (/\ pending_api_requests[c].present
                 /\ pending_api_requests'[c] # pending_api_requests[c]) =>
                    \E h \in Handlers, sid \in StringIds :
                        /\ ProcessDapiRes(h, c, sid)
                        /\ pending_api_requests'[c].Response = in_str[h][sid]
                        /\ pending_api_requests'[c].Event
             /\ (calls[c].pc = "waiting" /\ calls'[c].pc = "returned") =>
                    /\ pending_api_requests[c].Event
                    /\ calls'[c].result = pending_api_requests[c].Response]_vars

\* C32 witness: two calls were pending at once; the response of the later one
\* arrived first and that call returned it, while the earlier call still waits
\* unsignalled
C32_Witness ==
    \E c, d \in PendingIds :
        /\ c < d
        /\ calls[c].pc = "waiting"
        /\ ~pending_api_requests[c].Event
        /\ pending_api_requests[c].Response = ""
        /\ calls[d].pc = "returned"
        /\ calls[d].command \in {"dapi", "dapi_fwd"}
        /\ calls[d].result \in ResponsePayloads

\* C33: while the connection stays up, under fair scheduling of the tasks and
\* timeouts that fire, a session whose sync_integrity_free is false has it
\* true again later, even when extra-valid files were requested and the worker
\* never begins the extra-valid round.
C33_SlotEventuallyFree ==
    \A h \in Handlers :
        (conn[h] = "open" /\ ~sync_integrity_free[h])
            ~> (sync_integrity_free[h] \/ conn[h] # "open")

\* C34: the integrity gate is keyed by the worker's name on the server: a
\* connection_lost leaves integrity_already_executed as it was, a name leaves
\* the set only when the snapshot loop publishes, and a handler whose name is
\* in the set is answered False to syn_i_w_m_p whatever its own slot says.
C34_GateOutlivesSession ==
    [][/\ \A h \in Handlers :
             ConnectionLost(h) => integrity_already_executed' = integrity_already_executed
       /\ ~(integrity_already_executed \subseteq integrity_already_executed') =>
             /\ fsu_pc = "compute" /\ fsu_pc' = "sleep"
             /\ \E snap \in Snapshots : FileStatusUpdate(TRUE, snap)
       /\ \A h \in Handlers :
             (GetPermission(h, "syn_i_w_m_p") /\ name[h] \in integrity_already_executed) =>
                 response' = Answer(h, "syn_i_w_m_p", "False")]_vars

\* C34 witness: a worker's name is still in the set although its connection
\* was lost and the handler of a new connection, whose slot is free, has not
\* said hello yet
C34_Witness ==
    \E h \in Handlers :
        /\ conn[h] = "open"
        /\ name[h] = NoName
        /\ sync_integrity_free[h]
        /\ clients = {}
        /\ integrity_already_executed # {}

====
